---- MODULE Spec2Model ----
(***************************************************************************)
(* Model of src/run_imdb_queries_to_excel.py: the statement splitter       *)
(* split_mysql_statements, the marker extractor                            *)
(* extract_setup_and_queries, and the database phases of main              *)
(* (run_statements over the dataset and the setup, USE, the query loop).   *)
(*                                                                         *)
(* A text is a sequence of one-character strings.  Offsets into a text are *)
(* kept 0-based as in the source (m.start(), slices); Slice(s, a, b) is    *)
(* the source's s[a:b].  The regular expressions of the source are         *)
(* modelled by matchers that follow the backtracking matcher's result      *)
(* (leftmost match, greedy / non-greedy quantifiers).                      *)
(***************************************************************************)
EXTENDS Integers, Sequences, FiniteSets, TLC

VARIABLES
    raw,               \* solved_sql_text, the input of extract_setup_and_queries
    pc,                \* where the call stands
    lines, li,         \* split_mysql_statements: the lines, how many are consumed
    kept, in_block,    \* pass 1: the kept lines, the inside-block-comment flag
    text, pos,         \* pass 2: the filtered text, how many characters are consumed
    stmts, buff,       \* pass 2: the statements so far, the accumulating buffer
    in_single, in_double, esc,
    statements,        \* the splitter's result
    setup_statements,  \* the setup slice
    q_positions, idx,  \* the markers found, the 0-based loop index
    queries,           \* the mapping: NormalizedKey -> [label, sql]
    skip_setup,        \* main: args.skip_setup
    dataset_sql_text,  \* main: the text of the dataset file
    run_list, ri,      \* run_statements: its list, how many elements are consumed
    qkeys, qi,         \* main: sorted(queries.keys()), how many are consumed
    executed,          \* the calls of cur.execute, in order: [phase, sql, ok]
    outputs            \* the sheets and CSV files written, in order: [qkey, error]

\* the variables of main
mainvars == <<skip_setup, dataset_sql_text, run_list, ri, qkeys, qi, executed, outputs>>

vars == <<raw, pc, lines, li, kept, in_block, text, pos, stmts, buff, in_single,
          in_double, esc, statements, setup_statements, q_positions, idx, queries,
          skip_setup, dataset_sql_text, run_list, ri, qkeys, qi, executed, outputs>>

---------------------------------------------------------------------------
(* Characters *)

NL == "\n"

\* the characters of the modelled alphabet that \s and str.strip() treat as
\* whitespace
WS == {" ", "\t", NL}

Digits == {"0", "1", "2", "3", "4", "5", "6", "7", "8", "9"}

UpperSeq == <<"A", "B", "C", "D", "E", "F", "G", "H", "I", "J", "K", "L", "M",
              "N", "O", "P", "Q", "R", "S", "T", "U", "V", "W", "X", "Y", "Z">>

LowerSeq == <<"a", "b", "c", "d", "e", "f", "g", "h", "i", "j", "k", "l", "m",
              "n", "o", "p", "q", "r", "s", "t", "u", "v", "w", "x", "y", "z">>

UpperLetters == {UpperSeq[i] : i \in DOMAIN UpperSeq}

LowerLetters == {LowerSeq[i] : i \in DOMAIN LowerSeq}

\* re.IGNORECASE compares case-folded characters
Lower(c) ==
    IF c \in UpperLetters
    THEN LowerSeq[CHOOSE i \in DOMAIN UpperSeq : UpperSeq[i] = c]
    ELSE c

\* str.upper() on one character
Upper(c) ==
    IF c \in LowerLetters
    THEN UpperSeq[CHOOSE i \in DOMAIN LowerSeq : LowerSeq[i] = c]
    ELSE c

\* \w : what \b looks at
IsWord(c) == c \in UpperLetters \cup LowerLetters \cup Digits \cup {"_"}

\* the dash-like separators of q_pat's class [—\-–]; the em and en dash are
\* not in the modelled alphabet
Dashes == {"-"}

---------------------------------------------------------------------------
(* Strings *)

\* s[a:b] with 0-based a, exclusive b
Slice(s, a, b) == SubSeq(s, a + 1, b)

\* s occurs in t starting at 1-based index i, compared exactly
At(t, i, s) ==
    /\ i >= 1
    /\ i + Len(s) - 1 <= Len(t)
    /\ \A k \in 1..Len(s) : t[i + k - 1] = s[k]

\* the same, case-insensitively (s given in lower case)
AtFold(t, i, s) ==
    /\ i >= 1
    /\ i + Len(s) - 1 <= Len(t)
    /\ \A k \in 1..Len(s) : Lower(t[i + k - 1]) = s[k]

\* Python's  s in t
Contains(t, s) == \E i \in 1..(Len(t) + 1) : At(t, i, s)

\* greedy run: the first index j >= i at which t[j] is not in set S (Len+1 at the end)
SkipWhile(t, i, S) ==
    CHOOSE j \in i..(Len(t) + 1) :
        /\ \A k \in i..(j - 1) : t[k] \in S
        /\ (j = Len(t) + 1 \/ t[j] \notin S)

\* the first index j >= i at which t[j] is in set S (Len+1 when there is none)
SkipUntil(t, i, S) ==
    CHOOSE j \in i..(Len(t) + 1) :
        /\ \A k \in i..(j - 1) : t[k] \notin S
        /\ (j = Len(t) + 1 \/ t[j] \in S)

\* str.strip()
strip(s) ==
    LET a == SkipWhile(s, 1, WS)
    IN  IF a > Len(s) THEN <<>>
        ELSE LET b == CHOOSE j \in a..Len(s) :
                          /\ s[j] \notin WS
                          /\ \A k \in (j + 1)..Len(s) : s[k] \in WS
             IN  SubSeq(s, a, b)

\* str.lstrip(chars)
lstrip(s, S) == SubSeq(s, SkipWhile(s, 1, S), Len(s))

\* str.rstrip(chars)
rstrip(s, S) ==
    LET b == CHOOSE j \in 0..Len(s) :
                 /\ (j = 0 \/ s[j] \notin S)
                 /\ \A k \in (j + 1)..Len(s) : s[k] \in S
    IN  SubSeq(s, 1, b)

\* str.splitlines(), for the line break of the modelled alphabet
RECURSIVE splitlines(_)
splitlines(s) ==
    IF s = <<>> THEN <<>>
    ELSE LET i == SkipUntil(s, 1, {NL})
         IN  IF i > Len(s) THEN <<s>>
             ELSE <<SubSeq(s, 1, i - 1)>> \o splitlines(SubSeq(s, i + 1, Len(s)))

\* '\n'.join(lines)
RECURSIVE join(_)
join(ls) ==
    IF ls = <<>> THEN <<>>
    ELSE IF Len(ls) = 1 THEN ls[1]
    ELSE ls[1] \o <<NL>> \o join(Tail(ls))

---------------------------------------------------------------------------
(* split_mysql_statements, pass 1: comment filtering, line by line *)

OPENER == <<"/", "*">>

CLOSER == <<"*", "/">>

LEADER == <<"-", "-">>

\* a match of /\*.*?\*/ starts at 1-based index i: an opener with a closer
\* at least two characters after the opener's start
inline_block_at(l, i) ==
    At(l, i, OPENER) /\ \E j \in (i + 2)..Len(l) : At(l, j, CLOSER)

\* re.sub(r'/\*.*?\*/', ' ', l) from index i on: every leftmost, shortest
\* "/*" ... "*/" becomes one space
RECURSIVE sub_inline_block(_, _)
sub_inline_block(l, i) ==
    IF \E a \in i..Len(l) : inline_block_at(l, a)
    THEN LET a == CHOOSE a \in i..Len(l) :
                      inline_block_at(l, a) /\ \A k \in i..(a - 1) : ~inline_block_at(l, k)
             j == CHOOSE j \in (a + 2)..Len(l) :
                      At(l, j, CLOSER) /\ \A k \in (a + 2)..(j - 1) : ~At(l, k, CLOSER)
         IN  SubSeq(l, i, a - 1) \o <<" ">> \o sub_inline_block(l, j + 2)
    ELSE SubSeq(l, i, Len(l))

\* re.match(r'\s*--\s*Q\d+', l, flags=re.IGNORECASE)
is_q_marker_line(l) ==
    LET a == SkipWhile(l, 1, WS)
        b == SkipWhile(l, a + 2, WS)
    IN  /\ At(l, a, LEADER)
        /\ b + 1 <= Len(l)
        /\ Lower(l[b]) = "q"
        /\ l[b + 1] \in Digits

\* re.search(r'Segment\s+\d+', l, flags=re.IGNORECASE)
has_segment_label(l) ==
    \E i \in 1..Len(l) :
        /\ AtFold(l, i, <<"s", "e", "g", "m", "e", "n", "t">>)
        /\ i + 7 <= Len(l)
        /\ l[i + 7] \in WS
        /\ LET j == SkipWhile(l, i + 7, WS)
           IN  j <= Len(l) /\ l[j] \in Digits

\* re.sub(r'--.*$', '', l): the line up to its first "--"
strip_line_comment(l) ==
    IF Contains(l, LEADER)
    THEN LET i == CHOOSE i \in 1..Len(l) :
                      At(l, i, LEADER) /\ \A k \in 1..(i - 1) : ~At(l, k, LEADER)
         IN  SubSeq(l, 1, i - 1)
    ELSE l

\* mutant: the text after the closer on the closing line is emitted
filter_line_keeps_tail(st, line) ==
    LET opened == st.in_block \/ (Contains(line, OPENER) /\ ~Contains(line, CLOSER))
        l1 == sub_inline_block(line, 1)
    IN  IF opened /\ Contains(line, CLOSER)
        THEN [in_block |-> FALSE,
              kept |-> Append(st.kept,
                              SubSeq(line,
                                     2 + CHOOSE j \in 1..Len(line) :
                                             /\ At(line, j, CLOSER)
                                             /\ \A k \in 1..(j - 1) : ~At(line, k, CLOSER),
                                     Len(line)))]
        ELSE IF opened
        THEN [in_block |-> TRUE, kept |-> st.kept]
        ELSE IF is_q_marker_line(l1) \/ has_segment_label(l1)
        THEN [in_block |-> FALSE, kept |-> Append(st.kept, l1)]
        ELSE [in_block |-> FALSE, kept |-> Append(st.kept, strip_line_comment(l1))]

\* one iteration of the loop over lines; st = [in_block, kept]
filter_line(st, line) ==
    LET opened == st.in_block \/ (Contains(line, OPENER) /\ ~Contains(line, CLOSER))
        l1 == sub_inline_block(line, 1)
    IN  IF opened
        THEN [in_block |-> ~Contains(line, CLOSER), kept |-> st.kept]
        ELSE IF is_q_marker_line(l1) \/ has_segment_label(l1)
        THEN [in_block |-> FALSE, kept |-> Append(st.kept, l1)]
        ELSE [in_block |-> FALSE, kept |-> Append(st.kept, strip_line_comment(l1))]

\* the loop over lines, from state st
RECURSIVE filter_lines(_, _)
filter_lines(st, ls) ==
    IF ls = <<>> THEN st
    ELSE filter_lines(filter_line(st, Head(ls)), Tail(ls))

\* the filtered text handed to pass 2
filtered_text(sql_text) ==
    join(filter_lines([in_block |-> FALSE, kept |-> <<>>], splitlines(sql_text)).kept)

---------------------------------------------------------------------------
(* split_mysql_statements, pass 2: the statement scan, character by character *)

ScanInit ==
    [stmts |-> <<>>, buff |-> <<>>,
     in_single |-> FALSE, in_double |-> FALSE, esc |-> FALSE]

\* one iteration of the loop over characters
scan_char(st, ch) ==
    LET single == IF ch = "'" /\ ~st.in_double /\ ~st.esc
                  THEN ~st.in_single ELSE st.in_single
        double == IF ~(ch = "'" /\ ~st.in_double /\ ~st.esc)
                     /\ ch = "\"" /\ ~st.in_single /\ ~st.esc
                  THEN ~st.in_double ELSE st.in_double
        ends   == ch = ";" /\ ~single /\ ~double
    IN  [stmts     |-> IF ends THEN Append(st.stmts, strip(st.buff)) ELSE st.stmts,
         buff      |-> IF ends THEN <<>> ELSE Append(st.buff, ch),
         in_single |-> single,
         in_double |-> double,
         esc       |-> (ch = "\\" /\ ~st.esc)]

\* the loop over characters, from state st
RECURSIVE scan_chars(_, _)
scan_chars(st, t) ==
    IF t = <<>> THEN st
    ELSE scan_chars(scan_char(st, Head(t)), Tail(t))

\* mutant: the unterminated tail is not flushed
scan_finish_no_tail(st) ==
    SelectSeq(st.stmts, LAMBDA s : strip(s) # <<>>)

\* the end of input: flush a non-blank tail, drop the blank statements
scan_finish(st) ==
    LET tail == strip(st.buff)
        all == IF st.buff # <<>> /\ tail # <<>> THEN Append(st.stmts, tail) ELSE st.stmts
    IN  SelectSeq(all, LAMBDA s : strip(s) # <<>>)

\* pass 2 as a function of the filtered text
scan_text(t) == scan_finish(scan_chars(ScanInit, t))

split_mysql_statements(sql_text) == scan_text(filtered_text(sql_text))

---------------------------------------------------------------------------
(* extract_setup_and_queries: the setup partition *)

\* re.search(r'\bSegment\s*1\b', s, flags=re.IGNORECASE)
has_segment_1(s) ==
    \E i \in 1..Len(s) :
        /\ AtFold(s, i, <<"s", "e", "g", "m", "e", "n", "t">>)
        /\ (i = 1 \/ ~IsWord(s[i - 1]))
        /\ LET j == SkipWhile(s, i + 7, WS)
           IN  /\ j <= Len(s)
               /\ s[j] = "1"
               /\ (j = Len(s) \/ ~IsWord(s[j + 1]))

\* the loop "for i, s in enumerate(statements)": the 0-based index of the first
\* statement with the phase marker, None (here -1) when there is none
seg1_idx(ss) ==
    IF \E i \in 1..Len(ss) : has_segment_1(ss[i])
    THEN (CHOOSE i \in 1..Len(ss) :
              /\ has_segment_1(ss[i])
              /\ \A k \in 1..(i - 1) : ~has_segment_1(ss[k])) - 1
    ELSE -1

\* mutant: the slice keeps the phase-marker statement (statements[:seg1_idx + 1])
setup_of_keeps_marker(ss) ==
    IF seg1_idx(ss) = -1 THEN ss ELSE Slice(ss, 0, seg1_idx(ss) + 1)

\* mutant: no phase marker gives no setup at all (statements[:0])
setup_of_none_is_empty(ss) ==
    IF seg1_idx(ss) = -1 THEN <<>> ELSE Slice(ss, 0, seg1_idx(ss))

\* setup_statements = statements  /  statements[:seg1_idx]
setup_of(ss) ==
    IF seg1_idx(ss) = -1 THEN ss ELSE Slice(ss, 0, seg1_idx(ss))

---------------------------------------------------------------------------
(* extract_setup_and_queries: the marker scan *)

\* ^ under re.MULTILINE, at 1-based index p
at_line_start(s, p) == p = 1 \/ (p - 1 <= Len(s) /\ s[p - 1] = NL)

\* q_pat = ^\s*--\s*(Q\d+)\s*[dashes]*\s*(.*)$  tried at 1-based index p;
\* \s also matches the line break, (.*) does not
q_pat_matches(s, p) ==
    LET a == SkipWhile(s, p, WS)
        b == SkipWhile(s, a + 2, WS)
    IN  /\ at_line_start(s, p)
        /\ At(s, a, LEADER)
        /\ b + 1 <= Len(s)
        /\ Lower(s[b]) = "q"
        /\ s[b + 1] \in Digits

\* the match object of q_pat at p: group(1).upper(), start(), group(0), and the
\* 1-based index at which the match ends
q_pat_match(s, p) ==
    LET a == SkipWhile(s, p, WS)
        b == SkipWhile(s, a + 2, WS)
        d == SkipWhile(s, b + 1, Digits)
        e == SkipWhile(s, d, WS)
        f == SkipWhile(s, e, Dashes)
        g == SkipWhile(s, f, WS)
        h == SkipUntil(s, g, {NL})
    IN  [qkey       |-> [k \in 1..(d - b) |-> Upper(s[b + k - 1])],
         start_pos  |-> p - 1,
         label_line |-> SubSeq(s, p, h - 1),
         stop       |-> h]

\* q_pat.finditer(raw) from 1-based index p on: every non-overlapping match,
\* left to right.  Because of ^ a match starts at a line start only, so the
\* search moves from a failed line start to the next one
RECURSIVE q_pat_finditer(_, _)
q_pat_finditer(s, p) ==
    IF p > Len(s) THEN <<>>
    ELSE IF q_pat_matches(s, p)
    THEN LET m == q_pat_match(s, p)
         IN  <<[qkey |-> m.qkey, start_pos |-> m.start_pos, label_line |-> m.label_line]>>
             \o q_pat_finditer(s, m.stop)
    ELSE q_pat_finditer(s, SkipUntil(s, p, {NL}) + 1)

---------------------------------------------------------------------------
(* extract_setup_and_queries: one statement per block *)

KW_SELECT == <<"s", "e", "l", "e", "c", "t">>

KW_WITH == <<"w", "i", "t", "h">>

\* \b before 1-based index p, where a keyword (word characters) starts
boundary_before(b, p) == p = 1 \/ ~IsWord(b[p - 1])

\* \b at 1-based index j, right after a keyword
boundary_after(b, j) == j > Len(b) \/ ~IsWord(b[j])

\* SELECT\b at k
select_at(b, k) == AtFold(b, k, KW_SELECT) /\ boundary_after(b, k + 6)

\* .*?; after a keyword ending before j: the index of the first ';' at or after j
terminator_from(b, j) == SkipUntil(b, j, {";"})

\* WITH\b.+?SELECT\b at p: the 1-based index of the SELECT the non-greedy .+?
\* stops at (0 when there is none)
with_select(b, p) ==
    IF /\ AtFold(b, p, KW_WITH)
       /\ boundary_after(b, p + 4)
       /\ \E k \in (p + 5)..Len(b) : select_at(b, k)
    THEN CHOOSE k \in (p + 5)..Len(b) :
             select_at(b, k) /\ \A i \in (p + 5)..(k - 1) : ~select_at(b, i)
    ELSE 0

\* the 1-based index of the ';' that ends the match of
\* (?is)\b(SELECT|WITH\b.+?SELECT)\b.*?;  started at p  (0: no match at p)
stmt_end_at(b, p) ==
    IF ~boundary_before(b, p) THEN 0
    ELSE IF select_at(b, p)
    THEN (IF terminator_from(b, p + 6) <= Len(b) THEN terminator_from(b, p + 6) ELSE 0)
    ELSE IF with_select(b, p) # 0 /\ terminator_from(b, with_select(b, p) + 6) <= Len(b)
    THEN terminator_from(b, with_select(b, p) + 6)
    ELSE 0

\* re.search(...): the 1-based index at which the leftmost match starts
\* (0: no match in the block)
stmt_start(b) ==
    IF \E p \in 1..Len(b) : stmt_end_at(b, p) # 0
    THEN CHOOSE p \in 1..Len(b) :
             stmt_end_at(b, p) # 0 /\ \A i \in 1..(p - 1) : stmt_end_at(b, i) = 0
    ELSE 0

\* "if not m" is not taken
stmt_found(b) == stmt_start(b) # 0

\* m.group(0) of the leftmost match
stmt_match(b) == SubSeq(b, stmt_start(b), stmt_end_at(b, stmt_start(b)))

\* sql = m.group(0).strip().rstrip(';')
sql_of(m0) == rstrip(strip(m0), {";"})

---------------------------------------------------------------------------
(* extract_setup_and_queries: key and label *)

DigitSeq == <<"0", "1", "2", "3", "4", "5", "6", "7", "8", "9">>

DigitVal(c) == (CHOOSE i \in DOMAIN DigitSeq : DigitSeq[i] = c) - 1

\* re.sub(r'\D', '', qkey)
digits_of(qkey) == SelectSeq(qkey, LAMBDA c : c \in Digits)

\* int(digits): positional decimal value, leading zeros allowed, no width
RECURSIVE to_int(_)
to_int(ds) ==
    IF ds = <<>> THEN 0
    ELSE to_int(SubSeq(ds, 1, Len(ds) - 1)) * 10 + DigitVal(ds[Len(ds)])

\* the decimal digits of n >= 0
RECURSIVE to_decimal(_)
to_decimal(n) ==
    IF n < 10 THEN <<DigitSeq[n + 1]>>
    ELSE to_decimal(n \div 10) \o <<DigitSeq[(n % 10) + 1]>>

\* f"{n:02d}": zero-padded on the left to a width of at least two
\* mutant: f"{qnum:02d}"[-2:], truncated to two digits
format_last2(n) ==
    LET d == <<"0">> \o to_decimal(n)
    IN  SubSeq(d, Len(d) - 1, Len(d))

format_02d(n) ==
    LET d == to_decimal(n)
    IN  IF Len(d) < 2 THEN <<"0">> \o d ELSE d

\* qnum = int(re.sub(r'\D', '', qkey)); qstd = f"Q{qnum:02d}"
qstd_of(qkey) == <<"Q">> \o format_02d(to_int(digits_of(qkey)))

\* label = label_line.strip().lstrip('-').strip()
label_of(label_line) == strip(lstrip(strip(label_line), {"-"}))

\* raw[start_pos:end_pos] of the marker with 0-based index i
block_of(s, qp, i) ==
    Slice(s, qp[i + 1].start_pos,
          IF i + 1 < Len(qp) THEN qp[i + 2].start_pos ELSE Len(s))

\* queries[qstd] = {"label": label, "sql": sql}
\* mutant: queries.setdefault(qstd, entry), the first entry under a key stays
store_first(q, qstd, entry) ==
    [k \in (DOMAIN q) \cup {qstd} |-> IF k \in DOMAIN q THEN q[k] ELSE entry]

store(q, qstd, entry) ==
    [k \in (DOMAIN q) \cup {qstd} |-> IF k = qstd THEN entry ELSE q[k]]

---------------------------------------------------------------------------
(* main: the order of the keys, the USE statement *)

\* the characters of the modelled alphabet that keys are made of, in the
\* order of their code points
CodeOrder == DigitSeq \o UpperSeq \o <<"_">> \o LowerSeq

ord(c) == CHOOSE i \in DOMAIN CodeOrder : CodeOrder[i] = c

\* a < b on str: the first differing character decides, a proper prefix is smaller
str_lt(a, b) ==
    \E k \in 1..Len(b) :
        /\ k <= Len(a) + 1
        /\ \A i \in 1..(k - 1) : a[i] = b[i]
        /\ (k = Len(a) + 1 \/ ord(a[k]) < ord(b[k]))

\* sorted(keys)
RECURSIVE sorted(_)
sorted(S) ==
    IF S = {} THEN <<>>
    ELSE LET m == CHOOSE m \in S : \A x \in S \ {m} : str_lt(m, x)
         IN  <<m>> \o sorted(S \ {m})

\* the USE statement for the default database (the quotes around the name are
\* not in the modelled alphabet)
use_statement == <<"U", "S", "E", " ", "i", "m", "d", "b", ";">>

---------------------------------------------------------------------------
(* The program: extract_setup_and_queries(raw), step by step.              *)
(*   pc = "start"     entry, before sql_text.splitlines()                  *)
(*        "filter"    the loop over lines of split_mysql_statements        *)
(*        "scan"      the loop over the characters of the filtered text    *)
(*        "partition" statements returned, before the Segment 1 search     *)
(*        "markers"   before q_pat.finditer(raw)                           *)
(*        "loop"      the loop over q_positions                            *)
(*        "done"      (setup_statements, queries) returned                 *)
(* main goes on from "done":                                               *)
(*        "dataset"   run_statements over the statements of the dataset    *)
(*        "setup"     run_statements over setup_statements                 *)
(*        "use"       before cur.execute of the USE statement              *)
(*        "queries"   the loop over sorted(queries.keys())                 *)
(*        "finished"  the writer, the cursor and the connection closed     *)
(*        "exited"    sys.exit(1)                                          *)
(* The splitter's locals are the variables lines, li (the number of lines  *)
(* consumed), kept, in_block, text, pos (the number of characters          *)
(* consumed), stmts, buff, in_single, in_double, esc.                      *)
(***************************************************************************)

\* lines = sql_text.splitlines(); kept = []; in_block = False
SplitLines ==
    /\ pc = "start"
    /\ lines' = splitlines(raw)
    /\ pc' = "filter"
    /\ UNCHANGED <<raw, li, kept, in_block, text, pos, stmts, buff, in_single,
                   in_double, esc, statements, setup_statements, q_positions,
                   idx, queries>>
    /\ UNCHANGED mainvars

\* one iteration of "for line in lines"
FilterLine ==
    /\ pc = "filter"
    /\ li < Len(lines)
    /\ LET st == filter_line([in_block |-> in_block, kept |-> kept], lines[li + 1])
       IN  in_block' = st.in_block /\ kept' = st.kept
    /\ li' = li + 1
    /\ UNCHANGED <<raw, pc, lines, text, pos, stmts, buff, in_single, in_double,
                   esc, statements, setup_statements, q_positions, idx, queries>>
    /\ UNCHANGED mainvars

\* text = '\n'.join(kept); stmts = []; buff = []; the flags False
JoinKept ==
    /\ pc = "filter"
    /\ li = Len(lines)
    /\ text' = join(kept)
    /\ pc' = "scan"
    /\ UNCHANGED <<raw, lines, li, kept, in_block, pos, stmts, buff, in_single,
                   in_double, esc, statements, setup_statements, q_positions,
                   idx, queries>>
    /\ UNCHANGED mainvars

\* one iteration of "for ch in text"
ScanChar ==
    /\ pc = "scan"
    /\ pos < Len(text)
    /\ LET st == scan_char([stmts |-> stmts, buff |-> buff, in_single |-> in_single,
                            in_double |-> in_double, esc |-> esc], text[pos + 1])
       IN  /\ stmts' = st.stmts
           /\ buff' = st.buff
           /\ in_single' = st.in_single
           /\ in_double' = st.in_double
           /\ esc' = st.esc
    /\ pos' = pos + 1
    /\ UNCHANGED <<raw, pc, lines, li, kept, in_block, text, statements,
                   setup_statements, q_positions, idx, queries>>
    /\ UNCHANGED mainvars

\* the tail flush and the return of split_mysql_statements into statements
ReturnStatements ==
    /\ pc = "scan"
    /\ pos = Len(text)
    /\ statements' = scan_finish([stmts |-> stmts, buff |-> buff,
                                  in_single |-> in_single, in_double |-> in_double,
                                  esc |-> esc])
    /\ pc' = "partition"
    /\ UNCHANGED <<raw, lines, li, kept, in_block, text, pos, stmts, buff,
                   in_single, in_double, esc, setup_statements, q_positions,
                   idx, queries>>
    /\ UNCHANGED mainvars

\* the search for the first "Segment 1" statement and the setup slice
PartitionSetup ==
    /\ pc = "partition"
    /\ setup_statements' = setup_of(statements)
    /\ pc' = "markers"
    /\ UNCHANGED <<raw, lines, li, kept, in_block, text, pos, stmts, buff,
                   in_single, in_double, esc, statements, q_positions, idx, queries>>
    /\ UNCHANGED mainvars

\* q_positions = [... for m in q_pat.finditer(raw)]; queries = {}
FindMarkers ==
    /\ pc = "markers"
    /\ q_positions' = q_pat_finditer(raw, 1)
    /\ idx' = 0
    /\ pc' = "loop"
    /\ UNCHANGED <<raw, lines, li, kept, in_block, text, pos, stmts, buff,
                   in_single, in_double, esc, statements, setup_statements, queries>>
    /\ UNCHANGED mainvars

\* one iteration of the loop over q_positions with "if not m: continue" taken
\* mutant: a skip that also removes the entry under the marker's key (queries.pop(qstd, None))
SkipMarker_pops ==
    /\ pc = "loop"
    /\ idx < Len(q_positions)
    /\ ~stmt_found(block_of(raw, q_positions, idx))
    /\ queries' = [k \in DOMAIN queries \ {qstd_of(q_positions[idx + 1].qkey)} |-> queries[k]]
    /\ idx' = idx + 1
    /\ UNCHANGED <<raw, pc, lines, li, kept, in_block, text, pos, stmts, buff,
                   in_single, in_double, esc, statements, setup_statements,
                   q_positions>>
    /\ UNCHANGED mainvars

SkipMarker ==
    /\ pc = "loop"
    /\ idx < Len(q_positions)
    /\ ~stmt_found(block_of(raw, q_positions, idx))
    /\ idx' = idx + 1
    /\ UNCHANGED <<raw, pc, lines, li, kept, in_block, text, pos, stmts, buff,
                   in_single, in_double, esc, statements, setup_statements,
                   q_positions, queries>>
    /\ UNCHANGED mainvars

\* one iteration of the loop over q_positions that stores an entry
StoreQuery ==
    /\ pc = "loop"
    /\ idx < Len(q_positions)
    /\ stmt_found(block_of(raw, q_positions, idx))
    /\ queries' = store(queries, qstd_of(q_positions[idx + 1].qkey),
                        [label |-> label_of(q_positions[idx + 1].label_line),
                         sql   |-> sql_of(stmt_match(block_of(raw, q_positions, idx)))])
    /\ idx' = idx + 1
    /\ UNCHANGED <<raw, pc, lines, li, kept, in_block, text, pos, stmts, buff,
                   in_single, in_double, esc, statements, setup_statements,
                   q_positions>>
    /\ UNCHANGED mainvars

\* return setup_statements, queries
Return ==
    /\ pc = "loop"
    /\ idx = Len(q_positions)
    /\ pc' = "done"
    /\ UNCHANGED <<raw, lines, li, kept, in_block, text, pos, stmts, buff,
                   in_single, in_double, esc, statements, setup_statements,
                   q_positions, idx, queries>>
    /\ UNCHANGED mainvars

\* mysql.connector.connect(...) succeeds; cur = cnx.cursor(); the branch on
\* args.skip_setup, with the call of run_statements on the dataset file
Connect ==
    /\ pc = "done"
    /\ IF skip_setup
       THEN pc' = "use" /\ UNCHANGED <<run_list, ri>>
       ELSE /\ pc' = "dataset"
            /\ run_list' = split_mysql_statements(dataset_sql_text)
            /\ ri' = 0
    /\ UNCHANGED <<raw, lines, li, kept, in_block, text, pos, stmts, buff,
                   in_single, in_double, esc, statements, setup_statements,
                   q_positions, idx, queries>>
    /\ UNCHANGED <<skip_setup, dataset_sql_text, qkeys, qi, executed, outputs>>

\* mysql.connector.connect(...) raises: sys.exit(1)
ConnectFails ==
    /\ pc = "done"
    /\ pc' = "exited"
    /\ UNCHANGED <<raw, lines, li, kept, in_block, text, pos, stmts, buff,
                   in_single, in_double, esc, statements, setup_statements,
                   q_positions, idx, queries>>
    /\ UNCHANGED mainvars

\* mutant: a database error ends the loop of run_statements
RunStatement_aborts ==
    /\ pc \in {"dataset", "setup"}
    /\ ri < Len(run_list)
    /\ LET s2 == strip(run_list[ri + 1])
       IN  IF s2 = <<>> THEN executed' = executed /\ ri' = ri + 1
           ELSE \E ok \in BOOLEAN :
                    /\ executed' = Append(executed, [phase |-> pc, sql |-> s2, ok |-> ok])
                    /\ ri' = IF ok THEN ri + 1 ELSE Len(run_list)
    /\ UNCHANGED <<raw, pc, lines, li, kept, in_block, text, pos, stmts, buff,
                   in_single, in_double, esc, statements, setup_statements,
                   q_positions, idx, queries>>
    /\ UNCHANGED <<skip_setup, dataset_sql_text, run_list, qkeys, qi, outputs>>

\* one iteration of "for s in statements" of run_statements: a blank statement
\* is passed over, any other is executed once; mysql.connector.Error is caught
RunStatement ==
    /\ pc \in {"dataset", "setup"}
    /\ ri < Len(run_list)
    /\ LET s2 == strip(run_list[ri + 1])
       IN  IF s2 = <<>> THEN executed' = executed
           ELSE \E ok \in BOOLEAN :
                    executed' = Append(executed, [phase |-> pc, sql |-> s2, ok |-> ok])
    /\ ri' = ri + 1
    /\ UNCHANGED <<raw, pc, lines, li, kept, in_block, text, pos, stmts, buff,
                   in_single, in_double, esc, statements, setup_statements,
                   q_positions, idx, queries>>
    /\ UNCHANGED <<skip_setup, dataset_sql_text, run_list, qkeys, qi, outputs>>

\* run_statements returns from the dataset file; run_statements(cur, setup_statements)
DatasetDone ==
    /\ pc = "dataset"
    /\ ri = Len(run_list)
    /\ pc' = "setup"
    /\ run_list' = setup_statements
    /\ ri' = 0
    /\ UNCHANGED <<raw, lines, li, kept, in_block, text, pos, stmts, buff,
                   in_single, in_double, esc, statements, setup_statements,
                   q_positions, idx, queries>>
    /\ UNCHANGED <<skip_setup, dataset_sql_text, qkeys, qi, executed, outputs>>

\* run_statements returns from the setup statements
SetupDone ==
    /\ pc = "setup"
    /\ ri = Len(run_list)
    /\ pc' = "use"
    /\ UNCHANGED <<raw, lines, li, kept, in_block, text, pos, stmts, buff,
                   in_single, in_double, esc, statements, setup_statements,
                   q_positions, idx, queries>>
    /\ UNCHANGED mainvars

\* mutant: a failed USE statement is passed over
UseFails_goes_on ==
    /\ pc = "use"
    /\ executed' = Append(executed, [phase |-> "use", sql |-> use_statement, ok |-> FALSE])
    /\ pc' = "queries"
    /\ qkeys' = sorted(DOMAIN queries)
    /\ qi' = 0
    /\ UNCHANGED <<raw, lines, li, kept, in_block, text, pos, stmts, buff,
                   in_single, in_double, esc, statements, setup_statements,
                   q_positions, idx, queries>>
    /\ UNCHANGED <<skip_setup, dataset_sql_text, run_list, ri, outputs>>

\* cur.execute of the USE statement succeeds; the output directory and the
\* writer are made; the loop over sorted(queries.keys()) begins
UseDatabase ==
    /\ pc = "use"
    /\ executed' = Append(executed, [phase |-> "use", sql |-> use_statement, ok |-> TRUE])
    /\ pc' = "queries"
    /\ qkeys' = sorted(DOMAIN queries)
    /\ qi' = 0
    /\ UNCHANGED <<raw, lines, li, kept, in_block, text, pos, stmts, buff,
                   in_single, in_double, esc, statements, setup_statements,
                   q_positions, idx, queries>>
    /\ UNCHANGED <<skip_setup, dataset_sql_text, run_list, ri, outputs>>

\* cur.execute of the USE statement raises: sys.exit(1)
UseFails ==
    /\ pc = "use"
    /\ executed' = Append(executed, [phase |-> "use", sql |-> use_statement, ok |-> FALSE])
    /\ pc' = "exited"
    /\ UNCHANGED <<raw, lines, li, kept, in_block, text, pos, stmts, buff,
                   in_single, in_double, esc, statements, setup_statements,
                   q_positions, idx, queries>>
    /\ UNCHANGED <<skip_setup, dataset_sql_text, run_list, ri, qkeys, qi, outputs>>

\* one iteration of "for qkey in sorted(queries.keys())": the query is
\* executed, its rows or, on mysql.connector.Error, the error placeholder are
\* written as a sheet and as a CSV file
RunQuery ==
    /\ pc = "queries"
    /\ qi < Len(qkeys)
    /\ \E ok \in BOOLEAN :
           /\ executed' = Append(executed, [phase |-> "queries",
                                            sql |-> queries[qkeys[qi + 1]].sql,
                                            ok |-> ok])
           /\ outputs' = Append(outputs, [qkey |-> qkeys[qi + 1], error |-> ~ok])
    /\ qi' = qi + 1
    /\ UNCHANGED <<raw, pc, lines, li, kept, in_block, text, pos, stmts, buff,
                   in_single, in_double, esc, statements, setup_statements,
                   q_positions, idx, queries>>
    /\ UNCHANGED <<skip_setup, dataset_sql_text, run_list, ri, qkeys>>

\* writer.close(); cur.close(); cnx.close()
Finish ==
    /\ pc = "queries"
    /\ qi = Len(qkeys)
    /\ pc' = "finished"
    /\ UNCHANGED <<raw, lines, li, kept, in_block, text, pos, stmts, buff,
                   in_single, in_double, esc, statements, setup_statements,
                   q_positions, idx, queries>>
    /\ UNCHANGED mainvars

Next ==
    \/ SplitLines
    \/ FilterLine
    \/ JoinKept
    \/ ScanChar
    \/ ReturnStatements
    \/ PartitionSetup
    \/ FindMarkers
    \/ SkipMarker
    \/ StoreQuery
    \/ Return

\* main: the extraction, then the phases of execution
NextMain ==
    \/ Next
    \/ Connect
    \/ ConnectFails
    \/ RunStatement
    \/ DatasetDone
    \/ SetupDone
    \/ UseDatabase
    \/ UseFails
    \/ RunQuery
    \/ Finish

\* the state at the call extract_setup_and_queries(t)
Entry(t) ==
    /\ raw = t
    /\ pc = "start"
    /\ lines = <<>>
    /\ li = 0
    /\ kept = <<>>
    /\ in_block = FALSE
    /\ text = <<>>
    /\ pos = 0
    /\ stmts = <<>>
    /\ buff = <<>>
    /\ in_single = FALSE
    /\ in_double = FALSE
    /\ esc = FALSE
    /\ statements = <<>>
    /\ setup_statements = <<>>
    /\ q_positions = <<>>
    /\ idx = 0
    /\ queries = <<>>

\* main's arguments and texts as read, before anything is executed
Args(sk, ds) ==
    /\ skip_setup = sk
    /\ dataset_sql_text = ds
    /\ run_list = <<>>
    /\ ri = 0
    /\ qkeys = <<>>
    /\ qi = 0
    /\ executed = <<>>
    /\ outputs = <<>>

---------------------------------------------------------------------------
(* Inputs.  A text is built from a small set of tokens or of lines; the    *)
(* bounds are the numbers of tokens, lines and digits.                     *)

MaxQuoteTokens == 4

MaxCommentTokens == 5

MaxSetupLines == 3

MaxQueryLines == 4

MaxDigits == 3

\* every concatenation of at most n tokens of T
RECURSIVE Concats(_, _)
Concats(T, n) ==
    IF n = 0 THEN {<<>>}
    ELSE LET P == Concats(T, n - 1)
         IN  P \cup {p \o t : p \in P, t \in T}

\* every text of at most n lines of L
Texts(L, n) == {join(ls) : ls \in UNION {[1..k -> L] : k \in 0..n}}

\* quotes, the escape character, a terminator, a line comment, a line break
QuoteTokens ==
    {<<"'">>,
     <<"\"">>,
     <<";">>,
     <<"a">>,
     <<"-", "-">>,
     <<NL>>,
     <<"\\">>}

\* block comment delimiters, a terminator, a line break
CommentTokens ==
    {<<"/", "*">>,
     <<"*", "/">>,
     <<";">>,
     <<NL>>,
     <<"a">>}

\* two small files with markers, so that the splitter's inputs also run the
\* marker loop
MarkerSamples ==
    {<<"-", "-", " ", "Q", "1", " ", "-", " ", "a", NL, "S", "E", "L", "E", "C", "T", " ", "'", ";", "'", ";">>,
     <<"-", "-", "Q", "2">>}

SplitInputs ==
    Concats(QuoteTokens, MaxQuoteTokens)
        \cup Concats(CommentTokens, MaxCommentTokens)
        \cup MarkerSamples

\* statements, phase-marker lines, query markers, and a "--" line followed by
\* a line that starts with Q and a digit
SetupLines ==
    {<<"A", ";">>,
     <<"-", "-", " ", "S", "e", "g", "m", "e", "n", "t", " ", "1">>,
     <<"S", "E", "T", " ", "@", "s", "e", "g", "m", "e", "n", "t", "1", " ", "=", " ", "2", ";">>,
     <<"-", "-", " ", "S", "e", "g", "m", "e", "n", "t", " ", "1", "0">>,
     <<"-", "-", "Q", "1">>,
     <<"S", "E", "L", "E", "C", "T", " ", "1", ";">>,
     <<"-", "-">>,
     <<"Q", "2">>}

SetupInputs == Texts(SetupLines, MaxSetupLines)

\* marker lines (with a label, bare, with a keyword in the label) and
\* statements (plain with a blank before the terminator, WITH ... SELECT)
QueryLines ==
    {<<"-", "-", " ", "Q", "7", " ", "-", " ", "a">>,
     <<"-", "-", "Q", "0", "7">>,
     <<"S", "E", "L", "E", "C", "T", " ", "3", " ", ";">>,
     <<"W", "I", "T", "H", " ", "t", " ", "A", "S", " ", "(", "S", "E", "L", "E", "C", "T", " ", "1", ")", " ", "S", "E", "L", "E", "C", "T", " ", "2", ";">>,
     <<"-", "-", " ", "Q", "8", " ", "w", "i", "t", "h">>}

KeyDigits == {"0", "1", "2", "7"}

\* a marker with every digit string of at most MaxDigits digits, and a statement
KeyInputs ==
    {<<"-", "-", "Q">> \o d \o <<NL, "S", "E", "L", "E", "C", "T", " ", "1", ";">> :
        d \in Concats({<<c>> : c \in KeyDigits}, MaxDigits) \ {<<>>}}

QueryInputs == Texts(QueryLines, MaxQueryLines) \cup KeyInputs

Init == \E t \in QueryInputs : Entry(t) /\ Args(FALSE, <<>>)

InitSplit == \E t \in SplitInputs : Entry(t) /\ Args(FALSE, <<>>)

InitSetup == \E t \in SetupInputs : Entry(t) /\ Args(FALSE, <<>>)

\* the extractor on marker files
Spec == Init /\ [][Next]_vars

\* the extractor on the splitter's inputs
SpecSplit == InitSplit /\ [][Next]_vars

\* the extractor on files with phase markers
SpecSetup == InitSetup /\ [][Next]_vars

MaxMarkerLines == 3

\* block comment delimiters on lines of their own, marker lines with an inline
\* comment, an opener, a line comment, a quote and a terminator, a statement
\* with a line comment
MarkerLines ==
    {<<"/", "*">>,
     <<"*", "/">>,
     <<"-", "-", " ", "Q", "1", " ", "/", "*", " ", "x", " ", "*", "/", " ", "a">>,
     <<"-", "-", "Q", "2", " ", "/", "*">>,
     <<"-", "-", " ", "S", "e", "g", "m", "e", "n", "t", " ", "2", " ", "-", "-", " ", "c">>,
     <<"S", "E", "L", "E", "C", "T", " ", "1", ";", " ", "-", "-", " ", "c">>,
     <<"-", "-", " ", "Q", "3", " ", "-", " ", "i", "t", "'", "s">>,
     <<"-", "-", " ", "Q", "4", " ", "-", " ", "a", ";", " ", "b">>}

MarkerLineInputs == Texts(MarkerLines, MaxMarkerLines)

InitLines == \E t \in MarkerLineInputs : Entry(t) /\ Args(FALSE, <<>>)

\* the extractor on files whose marker lines meet the comment rules
SpecLines == InitLines /\ [][Next]_vars

MaxMainChunks == 3

\* a setup statement, the phase marker, two queries whose keys sort
\* differently as strings and as numbers, a marker without a statement
MainChunks ==
    {<<"A", ";">>,
     <<"-", "-", " ", "S", "e", "g", "m", "e", "n", "t", " ", "1">>,
     <<"-", "-", " ", "Q", "9", "9", " ", "-", " ", "a", NL, "S", "E", "L", "E", "C", "T", " ", "1", ";">>,
     <<"-", "-", " ", "Q", "1", "0", "0", " ", "-", " ", "b", NL, "S", "E", "L", "E", "C", "T", " ", "2", ";">>,
     <<"-", "-", " ", "Q", "7", " ", "-", " ", "c">>}

MainInputs == Texts(MainChunks, MaxMainChunks)

\* a dataset file of two statements, the second one unterminated
DatasetText == <<"C", ";", NL, "D">>

InitMain == \E t \in MainInputs, sk \in BOOLEAN : Entry(t) /\ Args(sk, DatasetText)

\* main on solved files with setup statements and queries
SpecMain == InitMain /\ [][NextMain]_vars

---------------------------------------------------------------------------
(* The input as SQL reads it: comments and string literals of a text.      *)

\* the closing quote of the literal opened at i: the first later occurrence
\* of the same quote that is not preceded by an odd run of backslashes
\* (0: the literal is not closed)
Escaped(t, i, j) ==
    LET b == CHOOSE b \in i..(j - 1) :
                 /\ \A k \in (b + 1)..(j - 1) : t[k] = "\\"
                 /\ (b = i \/ t[b] # "\\")
    IN  (j - 1 - b) % 2 = 1

LiteralEnd(t, i) ==
    IF \E j \in (i + 1)..Len(t) : t[j] = t[i] /\ ~Escaped(t, i, j)
    THEN CHOOSE j \in (i + 1)..Len(t) :
             /\ t[j] = t[i] /\ ~Escaped(t, i, j)
             /\ \A k \in (i + 1)..(j - 1) : ~(t[k] = t[i] /\ ~Escaped(t, i, k))
    ELSE 0

\* the closed string literals <<first, last>> of t that open at or after i,
\* where i is outside every comment and literal: a "--" comment runs to the
\* end of its line, a "/*" comment to the next "*/"
RECURSIVE Literals(_, _)
Literals(t, i) ==
    IF i > Len(t) THEN {}
    ELSE IF At(t, i, LEADER) THEN Literals(t, SkipUntil(t, i, {NL}) + 1)
    ELSE IF At(t, i, OPENER)
    THEN (IF \E j \in (i + 2)..Len(t) : At(t, j, CLOSER)
          THEN Literals(t, 2 + CHOOSE j \in (i + 2)..Len(t) :
                               At(t, j, CLOSER) /\ \A k \in (i + 2)..(j - 1) : ~At(t, k, CLOSER))
          ELSE {})
    ELSE IF t[i] \in {"'", "\""}
    THEN (IF LiteralEnd(t, i) = 0 THEN {}
          ELSE {<<i, LiteralEnd(t, i)>>} \cup Literals(t, LiteralEnd(t, i) + 1))
    ELSE Literals(t, i + 1)

\* the block comments <<first, last>> of t from i on, read textually: every
\* "/*" runs to the next "*/" that starts at least two characters later
FirstAt(t, i, s) ==
    IF \E j \in i..Len(t) : At(t, j, s)
    THEN CHOOSE j \in i..Len(t) : At(t, j, s) /\ \A k \in i..(j - 1) : ~At(t, k, s)
    ELSE 0

RECURSIVE BlockComments(_, _)
BlockComments(t, i) ==
    LET o == FirstAt(t, i, OPENER)
        c == IF o = 0 THEN 0 ELSE FirstAt(t, o + 2, CLOSER)
    IN  IF o = 0 \/ c = 0 THEN {}
        ELSE {<<o, c + 1>>} \cup BlockComments(t, c + 2)

InBlockComment(t, k) == \E sp \in BlockComments(t, 1) : sp[1] <= k /\ k <= sp[2]

\* every "/*" of t is closed and every "*/" of t closes one
WellFormedComments(t) ==
    \A k \in 1..Len(t) :
        (At(t, k, OPENER) \/ At(t, k, CLOSER)) => InBlockComment(t, k) /\ InBlockComment(t, k + 1)

---------------------------------------------------------------------------
(* Claims *)

\* C1: quote safety.  When the extractor has returned, every closed string
\* literal of the input that contains a ';' lies, whole, inside one of the
\* statements of split_mysql_statements: no statement ends inside it.
C1_Claim ==
    pc = "done" =>
        \A sp \in Literals(raw, 1) :
            (\E k \in sp[1]..sp[2] : raw[k] = ";")
                => \E n \in 1..Len(statements) :
                       Contains(statements[n], SubSeq(raw, sp[1], sp[2]))

\* C2: block comments never reach the statement scan.  For an input whose
\* block comments are well formed, no statement contains "/*" or "*/", and
\* there are at most as many statements as terminators outside the comments
\* allow (a ';' inside a comment is no boundary).
C2_Claim ==
    (pc = "done" /\ WellFormedComments(raw)) =>
        /\ \A n \in 1..Len(statements) :
               ~Contains(statements[n], OPENER) /\ ~Contains(statements[n], CLOSER)
        /\ Len(statements)
               <= 1 + Cardinality({k \in 1..Len(raw) : raw[k] = ";" /\ ~InBlockComment(raw, k)})

\* the setup partition has been computed
Partitioned == pc \in {"markers", "loop", "done"}

\* C3: the setup partition.  setup_statements is the prefix of the splitter's
\* statements, in the same order, that ends right before the first statement
\* with the phase marker Segment 1 (the word Segment, optional blanks, the
\* number 1; case-insensitive); it is the whole sequence when no statement has
\* the marker, and no statement at or after the marker statement is in it.
C3_SetupIsPrefixBeforeSegment1 ==
    Partitioned =>
        /\ Len(setup_statements) <= Len(statements)
        /\ setup_statements = SubSeq(statements, 1, Len(setup_statements))
        /\ \A i \in 1..Len(setup_statements) : ~has_segment_1(statements[i])
        /\ Len(setup_statements) < Len(statements)
               => has_segment_1(statements[Len(setup_statements) + 1])

\* C3 witness: a partition with setup statements before the marker statement
\* and a statement after it
C3_Witness ==
    /\ pc = "done"
    /\ Len(setup_statements) >= 1
    /\ Len(statements) >= Len(setup_statements) + 2
    /\ has_segment_1(statements[Len(setup_statements) + 1])

\* a query-marker occurrence in t: "--" with only blanks before it on its
\* line, then blanks or line breaks, then Q and a digit
MarkerOccurrence(t) ==
    \E p \in 1..Len(t) :
        /\ At(t, p, LEADER)
        /\ \A k \in 1..(p - 1) : (\A j \in k..(p - 1) : t[j] # NL) => t[k] \in WS
        /\ LET b == SkipWhile(t, p + 2, WS)
           IN  b + 1 <= Len(t) /\ Lower(t[b]) = "q" /\ t[b + 1] \in Digits

\* C4 as stated: an input without query markers gives an empty mapping and
\* the full statement sequence as setup.
C4_Claim ==
    (pc = "done" /\ ~MarkerOccurrence(raw)) =>
        /\ DOMAIN queries = {}
        /\ setup_statements = statements

\* C4 amended: an input without query markers gives an empty mapping, and the
\* full statement sequence as setup when no statement has the phase marker
\* Segment 1.
C4_Amended ==
    (pc = "done" /\ ~MarkerOccurrence(raw)) =>
        /\ DOMAIN queries = {}
        /\ (\A i \in 1..Len(statements) : ~has_segment_1(statements[i]))
               => setup_statements = statements

\* C4 witness: no query marker, no phase marker, several statements
C4_Witness ==
    /\ pc = "done"
    /\ ~MarkerOccurrence(raw)
    /\ \A i \in 1..Len(statements) : ~has_segment_1(statements[i])
    /\ Len(statements) >= 2
    /\ setup_statements = statements

---------------------------------------------------------------------------
(* Claims about the marker loop.  A marker is an element of q_positions;   *)
(* the markers 1..idx have been processed.                                 *)

InLoop == pc \in {"loop", "done"}

\* the block of the i-th marker (1-based) holds a statement
Found(i) == stmt_found(block_of(raw, q_positions, i - 1))

\* the entry the i-th marker gives
EntryOf(i) ==
    [label |-> label_of(q_positions[i].label_line),
     sql   |-> sql_of(stmt_match(block_of(raw, q_positions, i - 1)))]

KeyOf(i) == qstd_of(q_positions[i].qkey)

\* the processed markers with a statement and key k
FoundWithKey(k) == {i \in 1..idx : Found(i) /\ KeyOf(i) = k}

\* a line with its leading "--" and the surrounding blanks removed
WithoutLeader(l) == strip(SubSeq(strip(l), 3, Len(strip(l))))

\* C5: the label is text of the marker's own line.  Every stored label is a
\* query marker line of the input with its leading "--" and the surrounding
\* whitespace removed, and holds no character of a following line.
C5_Claim ==
    \A k \in DOMAIN queries :
        /\ \A n \in 1..Len(queries[k].label) : queries[k].label[n] # NL
        /\ \E n \in 1..Len(splitlines(raw)) :
               /\ is_q_marker_line(splitlines(raw)[n])
               /\ queries[k].label = WithoutLeader(splitlines(raw)[n])

\* the text of a block after its first line
AfterFirstLine(b) == SubSeq(b, SkipUntil(b, 1, {NL}) + 1, Len(b))

\* the first statement of a block: the text after the marker's line up to,
\* not including, the first terminator
FirstStatement(b) ==
    strip(SubSeq(AfterFirstLine(b), 1, SkipUntil(AfterFirstLine(b), 1, {";"}) - 1))

\* the first statement of a block is terminated, begins with WITH and
\* later contains SELECT
CteFirst(b) ==
    /\ SkipUntil(AfterFirstLine(b), 1, {";"}) <= Len(AfterFirstLine(b))
    /\ AtFold(FirstStatement(b), 1, KW_WITH)
    /\ boundary_after(FirstStatement(b), 5)
    /\ \E k \in 5..Len(FirstStatement(b)) : AtFold(FirstStatement(b), k, KW_SELECT)

\* C6: WITH-clause capture.  When the block of the marker just processed
\* begins, after the marker's line, with a WITH ... SELECT statement, the
\* entry stored for it has as sql that statement from its WITH keyword up to,
\* not including, its terminator.
C6_Claim ==
    (pc = "loop" /\ idx >= 1 /\ CteFirst(block_of(raw, q_positions, idx - 1)))
        => /\ KeyOf(idx) \in DOMAIN queries
           /\ queries[KeyOf(idx)].sql = FirstStatement(block_of(raw, q_positions, idx - 1))

\* C7: last write wins.  At every point of the loop, the one entry under a
\* key is the entry (label and sql) of the last processed marker with that
\* key whose block holds a statement.
C7_LastWriteWins ==
    InLoop =>
        \A k \in DOMAIN queries :
            /\ FoundWithKey(k) # {}
            /\ queries[k] = EntryOf(CHOOSE i \in FoundWithKey(k) :
                                        \A j \in FoundWithKey(k) : j <= i)

\* C7 witness: two markers with the same key and different entries
C7_Witness ==
    /\ pc = "done"
    /\ \E i, j \in 1..Len(q_positions) :
           /\ i < j
           /\ Found(i) /\ Found(j)
           /\ KeyOf(i) = KeyOf(j)
           /\ q_positions[i].qkey # q_positions[j].qkey
           /\ EntryOf(i).label # EntryOf(j).label
           /\ EntryOf(i).sql # EntryOf(j).sql

\* an iteration of the loop over a marker whose block holds no statement
SkipStep == pc = "loop" /\ idx < Len(q_positions) /\ ~Found(idx + 1) /\ idx' = idx + 1

\* C8: the key set.  At every point of the loop the keys of the mapping are
\* exactly the keys of the processed markers whose block holds a statement,
\* and an iteration over a marker without a statement leaves the mapping as
\* it is.
C8_KeySet ==
    /\ [](InLoop => DOMAIN queries = {KeyOf(i) : i \in {j \in 1..idx : Found(j)}})
    /\ [][SkipStep => queries' = queries]_vars

\* C8 witness: a marker without a statement was skipped while an entry was
\* stored under its key
C8_Witness ==
    /\ pc = "done"
    /\ \E i \in 1..Len(q_positions) :
           /\ ~Found(i)
           /\ \E j \in 1..(i - 1) : Found(j) /\ KeyOf(j) = KeyOf(i)
           /\ KeyOf(i) \in DOMAIN queries

\* C9: every stored sql is trimmed: not empty, no whitespace at either end,
\* no terminator at the end.
C9_Claim ==
    \A k \in DOMAIN queries :
        /\ queries[k].sql # <<>>
        /\ queries[k].sql[1] \notin WS
        /\ queries[k].sql[Len(queries[k].sql)] \notin WS \cup {";"}

\* a digit string without its leading zeros
NoLeadingZeros(d) == SubSeq(d, SkipWhile(d, 1, {"0"}), Len(d))

\* 'Q', then the digits without leading zeros, zero-padded on the left to two
ExpectedKey(d) ==
    LET z == NoLeadingZeros(d)
    IN  <<"Q">> \o (IF Len(z) = 0 THEN <<"0", "0">>
                    ELSE IF Len(z) = 1 THEN <<"0">> \o z
                    ELSE z)

\* C10: the NormalizedKey.  At every point of the loop the keys of the
\* mapping are, for the processed markers with a statement, 'Q' followed by
\* the marker's digits without leading zeros, zero-padded to two digits and
\* never truncated.
C10_NormalizedKey ==
    InLoop =>
        DOMAIN queries =
            {ExpectedKey(Tail(q_positions[i].qkey)) : i \in {j \in 1..idx : Found(j)}}

\* C10 witness: a three-digit key is kept whole
C10_Witness ==
    /\ pc = "done"
    /\ \E i \in 1..Len(q_positions) :
           /\ Found(i)
           /\ q_positions[i].qkey = <<"Q", "1", "2", "7">>
           /\ <<"Q", "1", "2", "7">> \in DOMAIN queries

\* the line of t that starts at 1-based index p
LineAt(t, p) == SubSeq(t, p, SkipUntil(t, p, {NL}) - 1)

\* the 0-based offsets of the lines of t of the query-marker form
MarkerLineOffsets(t) ==
    {p - 1 : p \in {q \in 1..Len(t) : at_line_start(t, q) /\ is_q_marker_line(LineAt(t, q))}}

\* C15: the marker scan finds every marker line.  When the scan has run, the
\* markers recorded are, in order of appearance, the lines of the input of the
\* query-marker form, one marker per line, each starting at its line.
C15_Claim ==
    InLoop =>
        /\ {q_positions[i].start_pos : i \in 1..Len(q_positions)} = MarkerLineOffsets(raw)
        /\ Len(q_positions) = Cardinality(MarkerLineOffsets(raw))
        /\ \A i, j \in 1..Len(q_positions) :
               i < j => q_positions[i].start_pos < q_positions[j].start_pos

\* the last processed marker with key k whose block holds a statement
LastWithKey(k) == CHOOSE i \in FoundWithKey(k) : \A j \in FoundWithKey(k) : j <= i

\* the statements the splitter delimits in the block of the i-th marker,
\* the marker's line left out
BlockStatements(i) ==
    split_mysql_statements(AfterFirstLine(block_of(raw, q_positions, i - 1)))

\* C16: the extraction uses the splitter's statement boundary.  At every
\* point of the loop, the sql of every entry is one of the statements that
\* split_mysql_statements delimits in the text of its marker's block after the
\* marker's line: a ';' inside a string literal or a comment does not end it.
C16_Claim ==
    InLoop =>
        \A k \in DOMAIN queries :
            \E n \in 1..Len(BlockStatements(LastWithKey(k))) :
                queries[k].sql = BlockStatements(LastWithKey(k))[n]

\* C20: the sql holds no text of the marker's line.  For the marker just
\* processed, when its block holds a statement, the match starts on a line
\* after the marker's line, and the stored sql is text of the block after the
\* marker's line.
C20_Claim ==
    (pc = "loop" /\ idx >= 1 /\ Found(idx))
        => /\ stmt_start(block_of(raw, q_positions, idx - 1))
                  > SkipUntil(block_of(raw, q_positions, idx - 1), 1, {NL})
           /\ Contains(AfterFirstLine(block_of(raw, q_positions, idx - 1)),
                       queries[KeyOf(idx)].sql)

---------------------------------------------------------------------------
(* Claims about the splitter's treatment of marker lines and comments.     *)

\* pass 1 is over: kept holds every emitted line
Filtered == pc # "start" /\ (pc = "filter" => li = Len(lines))

\* a query marker line or a line with the phase-marker token
IsMarkerLine(l) == is_q_marker_line(l) \/ has_segment_label(l)

\* C11: marker lines survive pass 1 verbatim.  When pass 1 is over, every
\* line of the input that is a query marker line or holds the phase-marker
\* token is one of the kept lines, character for character, whatever comment
\* delimiters it holds or lies between.
C11_Claim ==
    Filtered =>
        \A n \in 1..Len(splitlines(raw)) :
            IsMarkerLine(splitlines(raw)[n])
                => \E k \in 1..Len(kept) : kept[k] = splitlines(raw)[n]

\* the number of characters of the filtered text before its k-th line
LineStart(k) ==
    Len(join(SubSeq(kept, 1, k - 1))) + (IF k > 1 THEN 1 ELSE 0)

\* the scan stands at the start of the k-th kept line
AtLine(k) == pc = "scan" /\ k \in 1..Len(kept) /\ pos = LineStart(k)

\* the state of the scan after the line l, from the present state
AfterLine(l) ==
    scan_chars([stmts |-> stmts, buff |-> buff, in_single |-> in_single,
                in_double |-> in_double, esc |-> esc], l)

\* C14: preserved marker lines are inert.  When the scan stands at the start
\* of a kept marker line, scanning the line leaves the quote flags as they
\* are, as scanning an empty line does, so the lines after it are split as if
\* the marker line were empty.
C14_Claim ==
    \A k \in 1..Len(kept) :
        (AtLine(k) /\ IsMarkerLine(kept[k]))
            => /\ AfterLine(kept[k]).in_single = in_single
               /\ AfterLine(kept[k]).in_double = in_double

\* a line that sets the inside-block-comment flag: an opener and no closer
SetsFlag(l) == Contains(l, OPENER) /\ ~Contains(l, CLOSER)

\* an iteration of the loop of pass 1
FilterStep == pc = "filter" /\ li < Len(lines) /\ li' = li + 1

\* C17: lines of a multi-line block comment are dropped whole.  In every
\* iteration of pass 1: when the flag is set, or the line sets it, nothing is
\* emitted and the flag stays set exactly when the line holds no "*/"; in
\* every other iteration (so for the first line after a closing line that
\* does not open a comment itself) one line is emitted and the flag stays
\* clear.
C17_BlockLinesDropped ==
    [][FilterStep =>
          IF in_block \/ SetsFlag(lines[li + 1])
          THEN kept' = kept /\ in_block' = ~Contains(lines[li + 1], CLOSER)
          ELSE Len(kept') = Len(kept) + 1 /\ in_block' = FALSE]_vars

\* C17 witness: an opening line with text before the opener and a closing
\* line with text after the closer have been dropped
C17_Witness ==
    /\ pc = "filter"
    /\ li = 2
    /\ Len(lines) = 2
    /\ SetsFlag(lines[1])
    /\ ~At(lines[1], 1, OPENER)
    /\ Contains(lines[2], CLOSER)
    /\ ~At(lines[2], Len(lines[2]) - 1, CLOSER)
    /\ kept = <<>>
    /\ ~in_block

\* the escape is active at the k-th character of t: an odd number of
\* backslashes stands right before it
EscapeActive(t, k) ==
    LET b == CHOOSE b \in 0..(k - 1) :
                 /\ \A i \in (b + 1)..(k - 1) : t[i] = "\\"
                 /\ (b = 0 \/ t[b] # "\\")
    IN  (k - 1 - b) % 2 = 1

\* the open quote after the first k characters of t ("" when none is open): a
\* quote character toggles its own kind when the other kind is not open and
\* the escape is not active
RECURSIVE OpenQuote(_, _)
OpenQuote(t, k) ==
    IF k = 0 THEN ""
    ELSE LET q == OpenQuote(t, k - 1)
         IN  IF t[k] \in {"'", "\""} /\ ~EscapeActive(t, k) /\ q \in {"", t[k]}
             THEN (IF q = "" THEN t[k] ELSE "")
             ELSE q

\* the terminators of t outside quotes
Terminators(t) == {k \in 1..Len(t) : t[k] = ";" /\ OpenQuote(t, k) = ""}

\* the j-th terminator outside quotes; 0 before the first one, Len(t) + 1
\* after the last one
Cut(t, j) ==
    IF j = 0 THEN 0
    ELSE IF j > Cardinality(Terminators(t)) THEN Len(t) + 1
    ELSE CHOOSE k \in Terminators(t) :
             Cardinality({x \in Terminators(t) : x < k}) = j - 1

\* the trimmed non-empty segments of t between the terminators outside
\* quotes, the one after the last terminator included
Segments(t) ==
    SelectSeq([j \in 1..(Cardinality(Terminators(t)) + 1)
                   |-> strip(SubSeq(t, Cut(t, j - 1) + 1, Cut(t, j) - 1))],
              LAMBDA s : s # <<>>)

\* the characters outside WS of a sequence of texts, in order
RECURSIVE Ink(_)
Ink(ss) ==
    IF ss = <<>> THEN <<>>
    ELSE SelectSeq(Head(ss), LAMBDA c : c \notin WS) \o Ink(Tail(ss))

\* t without its terminators outside quotes
Unterminated(t) ==
    [j \in 1..(Cardinality(Terminators(t)) + 1)
         |-> SubSeq(t, Cut(t, j - 1) + 1, Cut(t, j) - 1)]

\* C18: the result of the statement scan.  When split_mysql_statements
\* returns, its result is the list, in order, of the trimmed non-empty
\* segments of the filtered text between the terminators outside quotes, the
\* unterminated tail included: no element is empty, none begins or ends with
\* whitespace, and the non-whitespace characters of the elements are those of
\* the filtered text without these terminators.
C18_TrimmedSegments ==
    pc = "partition" =>
        /\ statements = Segments(text)
        /\ \A n \in 1..Len(statements) :
               /\ statements[n] # <<>>
               /\ statements[n][1] \notin WS
               /\ statements[n][Len(statements[n])] \notin WS
        /\ Ink(statements) = Ink(Unterminated(text))

\* C18 witness: a ';' inside quotes that ends no statement, a statement before
\* it, and an unterminated tail that is returned
C18_Witness ==
    /\ pc = "partition"
    /\ Len(statements) >= 2
    /\ \E k \in 1..Len(text) : text[k] = ";" /\ k \notin Terminators(text)
    /\ Len(text) \notin Terminators(text)
    /\ Cut(text, Cardinality(Terminators(text))) < Len(text)
    /\ statements[Len(statements)]
           = strip(SubSeq(text, Cut(text, Cardinality(Terminators(text))) + 1, Len(text)))

---------------------------------------------------------------------------
(* Claims about main: the order of execution and its tolerance of failures *)

\* the calls of cur.execute made in a phase, in order
PhaseRecords(ph) == SelectSeq(executed, LAMBDA r : r.phase = ph)

\* the statements executed in a phase, in order
PhaseSqls(ph) == [i \in 1..Len(PhaseRecords(ph)) |-> PhaseRecords(ph)[i].sql]

\* the non-blank elements of a list, trimmed, in list order
NonBlank(ls) ==
    SelectSeq([i \in 1..Len(ls) |-> strip(ls[i])], LAMBDA s : s # <<>>)

\* run_statements has returned from the dataset file / from the setup statements
AfterDataset ==
    ~skip_setup /\ (pc \in {"setup", "use", "queries", "finished"}
                        \/ (pc = "exited" /\ executed # <<>>))

AfterSetup ==
    ~skip_setup /\ (pc \in {"use", "queries", "finished"}
                        \/ (pc = "exited" /\ executed # <<>>))

\* C12: partial-failure tolerance.  Whatever calls of cur.execute failed with
\* a database error: while run_statements runs, the statements executed so far
\* are the non-blank elements consumed so far, each once and in list order;
\* when it has returned, they are all the non-blank elements of its list; the
\* query loop has executed and written an output (rows, or the error
\* placeholder exactly when the execution failed) for each key consumed so
\* far, and for every query entry when main has finished.
C12_PartialFailureTolerant ==
    /\ pc \in {"dataset", "setup"}
           => PhaseSqls(pc) = NonBlank(SubSeq(run_list, 1, ri))
    /\ AfterDataset
           => PhaseSqls("dataset") = NonBlank(split_mysql_statements(dataset_sql_text))
    /\ AfterSetup => PhaseSqls("setup") = NonBlank(setup_statements)
    /\ pc \in {"queries", "finished"}
           => /\ Len(outputs) = qi
              /\ Len(PhaseRecords("queries")) = qi
              /\ \A i \in 1..qi :
                     /\ outputs[i].qkey = qkeys[i]
                     /\ PhaseRecords("queries")[i].sql = queries[qkeys[i]].sql
                     /\ outputs[i].error = ~PhaseRecords("queries")[i].ok
    /\ pc = "finished"
           => /\ {outputs[i].qkey : i \in 1..Len(outputs)} = DOMAIN queries
              /\ Len(outputs) = Cardinality(DOMAIN queries)

\* C12 witness: main has finished although a dataset statement failed before
\* another one, a setup statement failed, and a query failed before another one
C12_Witness ==
    /\ pc = "finished"
    /\ Len(PhaseRecords("dataset")) >= 2
    /\ ~PhaseRecords("dataset")[1].ok
    /\ \E i \in 1..Len(PhaseRecords("setup")) : ~PhaseRecords("setup")[i].ok
    /\ Len(outputs) >= 2
    /\ outputs[1].error
    /\ ~outputs[2].error

\* the query number of a key
KeyNumber(k) == to_int(Tail(k))

\* C13: the order of execution and export.  The keys of the outputs written
\* so far are in ascending order both as strings and as query numbers, in
\* whatever order the markers stand in the text.
C13_Claim ==
    \A i, j \in 1..Len(outputs) :
        i < j => /\ str_lt(outputs[i].qkey, outputs[j].qkey)
                 /\ KeyNumber(outputs[i].qkey) < KeyNumber(outputs[j].qkey)

\* the place of a phase in the order of main
PhaseRank(ph) ==
    CASE ph = "dataset" -> 1
      [] ph = "setup"   -> 2
      [] ph = "use"     -> 3
      [] ph = "queries" -> 4

\* C19: the order of the phases.  The calls of cur.execute are made in the
\* order dataset statements, setup statements, USE, queries.  Without
\* skip_setup all the dataset statements have been attempted when a setup
\* statement, the USE statement or a query is, and all the setup statements
\* when the USE statement or a query is.  With skip_setup no dataset or setup
\* statement is ever executed, and every query entry has been executed when
\* main finishes.  After a failed USE statement no query is executed and
\* nothing is written.
C19_PhaseOrder ==
    /\ \A i, j \in 1..Len(executed) :
           i < j => PhaseRank(executed[i].phase) <= PhaseRank(executed[j].phase)
    /\ Len(PhaseRecords("use")) <= 1
    /\ (~skip_setup /\ \E i \in 1..Len(executed) : PhaseRank(executed[i].phase) >= 2)
           => PhaseSqls("dataset") = NonBlank(split_mysql_statements(dataset_sql_text))
    /\ (~skip_setup /\ \E i \in 1..Len(executed) : PhaseRank(executed[i].phase) >= 3)
           => PhaseSqls("setup") = NonBlank(setup_statements)
    /\ skip_setup => PhaseRecords("dataset") = <<>> /\ PhaseRecords("setup") = <<>>
    /\ pc = "finished"
           => /\ Len(PhaseRecords("use")) = 1
              /\ {outputs[i].qkey : i \in 1..Len(outputs)} = DOMAIN queries
              /\ Len(PhaseRecords("queries")) = Cardinality(DOMAIN queries)
    /\ (\E i \in 1..Len(executed) : executed[i].phase = "use" /\ ~executed[i].ok)
           => PhaseRecords("queries") = <<>> /\ outputs = <<>>
    /\ PhaseRecords("queries") # <<>> => PhaseRecords("use") # <<>>

\* C19 witness: a finished run without skip_setup that executed dataset
\* statements, setup statements, the USE statement and queries
C19_Witness ==
    /\ pc = "finished"
    /\ ~skip_setup
    /\ Len(PhaseRecords("dataset")) >= 2
    /\ Len(PhaseRecords("setup")) >= 1
    /\ Len(PhaseRecords("queries")) >= 2

====
